---- MODULE Spec2Model ----
(***************************************************************************)
(* The "test" resource of the comic backend: five axum handlers, each      *)
(* issuing one parameterised SQL statement against table comic.test.       *)
(* Requests are handled by independently scheduled tasks; a statement is   *)
(* one atomic step of the store.                                           *)
(***************************************************************************)
EXTENDS Integers, Sequences, FiniteSets, TLC

\* ------------------------------------------------------------------ bounds
\* two concurrent tasks (Spec)
MaxIds == 2
MaxTime == 1
\* one task, requests in sequence (SpecSeq)
MaxIdsSeq == 3
MaxTimeSeq == 2

\* ------------------------------------------------------- program constants
OK == 200
CREATED == 201
NO_CONTENT == 204
BAD_REQUEST == 400
NOT_FOUND == 404
INTERNAL_SERVER_ERROR == 500

VARIABLES
    store,    \* rows of comic.test
    now,      \* the store's clock (CURRENT_TIMESTAMP)
    nextId,   \* identifiers generated so far are 1..nextId-1
    pc,       \* per task: "idle" or "pending" (request accepted, handler not run)
    req,      \* per task: the request being handled
    out       \* the response last sent, with its request; forgotten when the
              \* router accepts the next request

vars == <<store, now, nextId, pc, req, out>>

\* ----------------------------------------------------------------- domains
NULL == "NULL"
Titles == {"A", "B"}
Contents == {"x"}
Tasks == DOMAIN pc
IdLimit == IF Cardinality(Tasks) = 1 THEN MaxIdsSeq ELSE MaxIds
TimeLimit == IF Cardinality(Tasks) = 1 THEN MaxTimeSeq ELSE MaxTime
Ids == 1..IdLimit
\* a path segment: the text of identifier n (n >= 1), or text that is no
\* identifier (0)
PathSegments == 0..IdLimit

\* ------------------------------------------------------------------- model
\* struct Test
Test(id, title, content, created_at, updated_at) ==
    [id |-> id, title |-> title, content |-> content,
     created_at |-> created_at, updated_at |-> updated_at]

\* struct CreateTestRequest: title is a String, content an Option<String>
CreateTestRequest == [title : Titles, content : Contents \cup {NULL}]

\* struct UpdateTestRequest: both fields are Option<String>
UpdateTestRequest == [title : Titles \cup {NULL}, content : Contents \cup {NULL}]

NoReq == [op |-> "none", path |-> 0, title |-> NULL, content |-> NULL]

\* the text parses as a UUID
IsUuidText(seg) == seg >= 1

ParseUuid_Lenient(seg) == [ok |-> TRUE, id |-> seg]

\* Path<Uuid>: the extractor parses the path segment before the handler runs
ParseUuid(seg) ==
    IF IsUuidText(seg) THEN [ok |-> TRUE, id |-> seg] ELSE [ok |-> FALSE, id |-> 0]

Coalesce_First(a, b) == a

\* SQL COALESCE(a, b)
Coalesce(a, b) == IF a # NULL THEN a ELSE b

\* WHERE id = $1
WhereId(tbl, id) == {r \in tbl : r.id = id}

\* fetch_one: the row of a one-row result, or the RowNotFound error
FetchOne(rows) ==
    IF rows = {} THEN {[ok |-> FALSE, row |-> <<>>]}
    ELSE {[ok |-> TRUE, row |-> <<r>>] : r \in rows}

\* column defaults of comic.test applied by INSERT: a generated id, and the
\* current time for created_at and updated_at
ColumnDefaults(id, t) == [id |-> id, created_at |-> t, updated_at |-> t]

InsertRow_NoContent(payload, id, t) ==
    LET d == ColumnDefaults(id, t)
    IN Test(d.id, payload.title, NULL, d.created_at, d.updated_at)

\* INSERT INTO comic.test (title, content) VALUES ($1, $2) RETURNING ...
InsertRow(payload, id, t) ==
    LET d == ColumnDefaults(id, t)
    IN Test(d.id, payload.title, payload.content, d.created_at, d.updated_at)

UpdatedRow_Replace(r, payload, t) ==
    Test(r.id, payload.title, payload.content, r.created_at, t)

UpdatedRow_EpochStamp(r, payload, t) ==
    Test(r.id, Coalesce(payload.title, r.title),
         Coalesce(payload.content, r.content), r.created_at, 0)

UpdatedRow_KeepStamp(r, payload, t) ==
    Test(r.id, Coalesce(payload.title, r.title),
         Coalesce(payload.content, r.content), r.created_at, r.updated_at)

UpdatedRow_NewId(r, payload, t) ==
    Test((r.id % IdLimit) + 1, Coalesce(payload.title, r.title),
         Coalesce(payload.content, r.content), r.created_at, t)

\* SET title = COALESCE($2, title), content = COALESCE($3, content),
\*     updated_at = CURRENT_TIMESTAMP
UpdatedRow(r, payload, t) ==
    Test(r.id, Coalesce(payload.title, r.title),
         Coalesce(payload.content, r.content), r.created_at, t)

\* UPDATE comic.test SET ... WHERE id = $1
UpdateStmt(tbl, id, payload, t) ==
    {IF r.id = id THEN UpdatedRow(r, payload, t) ELSE r : r \in tbl}

DeleteStmt_NoWhere(tbl, id) == {}

\* DELETE FROM comic.test WHERE id = $1
DeleteStmt(tbl, id) == tbl \ WhereId(tbl, id)

OrderKey_UpdatedAt(r) == r.updated_at

\* the key ORDER BY created_at DESC sorts on
OrderKey(r) == r.created_at

\* SELECT ... ORDER BY created_at DESC: every ordering of the rows the store
\* may return (rows with equal keys come in any order)
SelectAllOrdered(tbl) ==
    LET n == Cardinality(tbl)
    IN {s \in [1..n -> tbl] :
          /\ \A i, j \in 1..n : i # j => s[i] # s[j]
          /\ \A i, j \in 1..n : i < j => OrderKey(s[i]) >= OrderKey(s[j])}

NoOut == [task |-> 0, req |-> NoReq, status |-> 0, body |-> <<>>, cause |-> "none"]

\* the handler of task p returns: the response goes out and the task ends.
\* cause records why: "ok", "norow" (no row matched), "dbfail" (the statement
\* failed in the store or the pool), "badid" (the extractor rejected the path)
Respond(p, status, body, cause) ==
    /\ out' = [task |-> p, req |-> req[p], status |-> status, body |-> body,
               cause |-> cause]
    /\ pc' = [pc EXCEPT ![p] = "idle"]
    /\ req' = [req EXCEPT ![p] = NoReq]

InitWith(tasks) ==
    /\ store = {}
    /\ now = 0
    /\ nextId = 1
    /\ pc = [p \in tasks |-> "idle"]
    /\ req = [p \in tasks |-> NoReq]
    /\ out = NoOut

Init == InitWith({1, 2})

InitSeq == InitWith({1})

\* the router hands a request to a task
Dispatch(p) ==
    /\ pc[p] = "idle"
    /\ \/ req' = [req EXCEPT ![p] = [NoReq EXCEPT !.op = "list"]]
       \/ \E op \in {"get", "delete"}, seg \in PathSegments :
            req' = [req EXCEPT ![p] = [NoReq EXCEPT !.op = op, !.path = seg]]
       \/ \E pl \in CreateTestRequest :
            req' = [req EXCEPT ![p] =
                      [op |-> "create", path |-> 0,
                       title |-> pl.title, content |-> pl.content]]
       \/ \E seg \in PathSegments, pl \in UpdateTestRequest :
            req' = [req EXCEPT ![p] =
                      [op |-> "update", path |-> seg,
                       title |-> pl.title, content |-> pl.content]]
    /\ pc' = [pc EXCEPT ![p] = "pending"]
    /\ out' = NoOut
    /\ UNCHANGED <<store, now, nextId>>

\* GET /api/tests
list_tests(p) ==
    /\ pc[p] = "pending" /\ req[p].op = "list"
    /\ \/ \E tests \in SelectAllOrdered(store) : Respond(p, OK, tests, "ok")
       \/ Respond(p, INTERNAL_SERVER_ERROR, <<>>, "dbfail")
    /\ UNCHANGED <<store, now, nextId>>

\* GET /api/tests/:id
get_test(p) ==
    /\ pc[p] = "pending" /\ req[p].op = "get"
    /\ LET u == ParseUuid(req[p].path)
       IN IF ~u.ok
          THEN Respond(p, BAD_REQUEST, <<>>, "badid")
          ELSE \/ \E f \in FetchOne(WhereId(store, u.id)) :
                    IF f.ok THEN Respond(p, OK, f.row, "ok")
                    ELSE Respond(p, NOT_FOUND, <<>>, "norow")
               \/ Respond(p, NOT_FOUND, <<>>, "dbfail")
    /\ UNCHANGED <<store, now, nextId>>

\* POST /api/tests
create_test(p) ==
    /\ pc[p] = "pending" /\ req[p].op = "create"
    /\ \/ /\ nextId <= IdLimit
          /\ LET r == InsertRow(req[p], nextId, now)
             IN /\ store' = store \cup {r}
                /\ nextId' = nextId + 1
                /\ Respond(p, CREATED, <<r>>, "ok")
       \/ /\ Respond(p, INTERNAL_SERVER_ERROR, <<>>, "dbfail")
          /\ UNCHANGED <<store, nextId>>
    /\ UNCHANGED now

\* PUT /api/tests/:id
update_test(p) ==
    /\ pc[p] = "pending" /\ req[p].op = "update"
    /\ LET u == ParseUuid(req[p].path)
           tbl == UpdateStmt(store, u.id, req[p], now)
       IN IF ~u.ok
          THEN /\ Respond(p, BAD_REQUEST, <<>>, "badid")
               /\ UNCHANGED store
          ELSE \/ \E f \in FetchOne(WhereId(tbl, u.id)) :
                    /\ store' = tbl
                    /\ IF f.ok THEN Respond(p, OK, f.row, "ok")
                       ELSE Respond(p, NOT_FOUND, <<>>, "norow")
               \/ /\ Respond(p, NOT_FOUND, <<>>, "dbfail")
                  /\ UNCHANGED store
    /\ UNCHANGED <<now, nextId>>

\* DELETE /api/tests/:id
delete_test(p) ==
    /\ pc[p] = "pending" /\ req[p].op = "delete"
    /\ LET u == ParseUuid(req[p].path)
           rows_affected == Cardinality(WhereId(store, u.id))
       IN IF ~u.ok
          THEN /\ Respond(p, BAD_REQUEST, <<>>, "badid")
               /\ UNCHANGED store
          ELSE \/ /\ store' = DeleteStmt(store, u.id)
                  /\ IF rows_affected = 0
                     THEN Respond(p, NOT_FOUND, <<>>, "norow")
                     ELSE Respond(p, NO_CONTENT, <<>>, "ok")
               \/ /\ Respond(p, INTERNAL_SERVER_ERROR, <<>>, "dbfail")
                  /\ UNCHANGED store
    /\ UNCHANGED <<now, nextId>>

\* the store's clock advances
Tick ==
    /\ now < TimeLimit
    /\ now' = now + 1
    /\ UNCHANGED <<store, nextId, pc, req, out>>

Next ==
    \/ \E p \in Tasks : Dispatch(p)
    \/ \E p \in Tasks : list_tests(p)
    \/ \E p \in Tasks : get_test(p)
    \/ \E p \in Tasks : create_test(p)
    \/ \E p \in Tasks : update_test(p)
    \/ \E p \in Tasks : delete_test(p)
    \/ Tick

\* two tasks serving requests concurrently
Spec == Init /\ [][Next]_vars

\* one task serving requests one after the other
SpecSeq == InitSeq /\ [][Next]_vars

\* ------------------------------------------------------------ properties
IdsOf(tbl) == {r.id : r \in tbl}
RowOf(tbl, id) == CHOOSE r \in tbl : r.id = id
\* the step just taken ran the handler of operation op to its response
Ran(op) == out'.task # 0 /\ out' # out /\ out'.req.op = op
\* a task holds a request that its handler has not run yet
Waiting(q, op, seg) == pc[q] = "pending" /\ req[q].op = op /\ req[q].path = seg

\* C1: an update of an existing record (the statement not failing in the
\* store) succeeds, overwrites exactly the fields present in the payload,
\* keeps the absent fields, id and created_at, sets updated_at to the current
\* time, and leaves every other record as it was; this includes the payload
\* with both fields absent.
C1_Step ==
    (Ran("update") /\ out'.req.path \in IdsOf(store) /\ out'.cause # "dbfail") =>
        LET id == out'.req.path
            old == RowOf(store, id)
            new == RowOf(store', id)
        IN /\ out'.status = OK
           /\ WhereId(store', id) = {new}
           /\ out'.body = <<new>>
           /\ new.title = (IF out'.req.title = NULL THEN old.title ELSE out'.req.title)
           /\ new.content =
                (IF out'.req.content = NULL THEN old.content ELSE out'.req.content)
           /\ new.id = old.id
           /\ new.created_at = old.created_at
           /\ new.updated_at = now
           /\ store' \ {new} = store \ {old}
C1_UpdateFrame == [][C1_Step]_vars

\* an update carrying only content came back with the record's title kept
\* and updated_at moved past created_at
C1_Witness ==
    /\ out.req.op = "update" /\ out.status = OK
    /\ out.req.title = NULL /\ out.req.content # NULL
    /\ out.body[1].title \in Titles
    /\ out.body[1].content = out.req.content
    /\ out.body[1].updated_at > out.body[1].created_at

\* C2: a delete of a stored id removes that record only and answers 204; a
\* delete of an id not stored answers 404 and changes nothing; an id that was
\* generated and is no longer stored never comes back, and a get or delete of
\* it answers 404 (the statement not failing in the store).
C2_Step ==
    /\ (Ran("delete") /\ IsUuidText(out'.req.path) /\ out'.cause # "dbfail") =>
          IF out'.req.path \in IdsOf(store)
          THEN /\ out'.status = NO_CONTENT
               /\ store' = store \ {RowOf(store, out'.req.path)}
          ELSE /\ out'.status = NOT_FOUND
               /\ store' = store
    /\ \A id \in 1..(nextId - 1) : id \notin IdsOf(store) => id \notin IdsOf(store')
    /\ (Ran("get") /\ IsUuidText(out'.req.path) /\ out'.req.path \notin IdsOf(store)) =>
          out'.status = NOT_FOUND
C2_DeleteThenNotFound == [][C2_Step]_vars

\* a delete of an id that was generated earlier and is gone answered 404
C2_Witness ==
    /\ out.req.op = "delete" /\ out.status = NOT_FOUND
    /\ out.req.path \in 1..(nextId - 1)
    /\ store # {}

\* C3: a failure of the store is answered with a server error, and not-found
\* is answered only when no row matches the identifier.
C3_StoreFailureIsServerError ==
    /\ out.cause = "dbfail" => out.status = INTERNAL_SERVER_ERROR
    /\ out.status = NOT_FOUND => out.cause = "norow"

\* C4: every stored record has a title that is not null and
\* created_at <= updated_at.
C4_TitleAndTimestamps ==
    \A r \in store : r.title # NULL /\ r.title \in Titles /\ r.created_at <= r.updated_at

\* an update that carried no title was applied after the clock moved
C4_Witness ==
    /\ out.req.op = "update" /\ out.status = OK /\ out.req.title = NULL
    /\ \E r \in store : r.id = out.req.path /\ r.created_at < r.updated_at

\* C5: no two stored records share an id; a successful create adds one record
\* whose id no stored record had; no other operation adds an id, and only
\* delete removes one.
C5_Step ==
    /\ \A r1, r2 \in store' : r1.id = r2.id => r1 = r2
    /\ (Ran("create") /\ out'.status = CREATED) =>
          /\ out'.body[1].id \notin IdsOf(store)
          /\ store' = store \cup {out'.body[1]}
    /\ ~(Ran("create") /\ out'.status = CREATED) => IdsOf(store') \subseteq IdsOf(store)
    /\ ~Ran("delete") => IdsOf(store) \subseteq IdsOf(store')
C5_UniqueStableIds == [][C5_Step]_vars

\* the same create request served twice left two records
C5_Witness ==
    /\ out.req.op = "create" /\ out.status = CREATED
    /\ \E r \in store : /\ r.id # out.body[1].id
                        /\ r.title = out.body[1].title
                        /\ r.content = out.body[1].content
                        /\ r.created_at = out.body[1].created_at

\* C6: the record a create returns has created_at = updated_at and carries
\* the payload, and a get of the returned id served right after the create
\* (the next handler to run, so no update or delete of the id lies between)
\* succeeds with the payload's title and content.
C6_Step ==
    /\ (Ran("create") /\ out'.status = CREATED) =>
          /\ out'.body[1].created_at = out'.body[1].updated_at
          /\ out'.body[1].title = out'.req.title
          /\ out'.body[1].content = out'.req.content
    /\ (Ran("get") /\ out.status = CREATED /\ out'.req.path = out.body[1].id
          /\ out'.cause # "dbfail") =>
          /\ out'.status = OK
          /\ out'.body[1].id = out.body[1].id
          /\ out'.body[1].title = out.req.title
          /\ out'.body[1].content = out.req.content
C6_RoundTrip == [][C6_Step]_vars

\* a create with content has just answered and a get of the id it returned
\* is the next to be served
C6_Witness ==
    /\ out.req.op = "create" /\ out.status = CREATED
    /\ out.body[1].content # NULL
    /\ \E q \in Tasks : Waiting(q, "get", out.body[1].id)

\* C7: the same update payload applied twice in a row to a record returns
\* the same title and content both times; updated_at of the second result is
\* at least that of the first, and greater if the clock advanced in between.
C7_Step ==
    (/\ Ran("update") /\ out.req.op = "update" /\ out.status = OK
     /\ out'.req.path = out.req.path
     /\ out'.req.title = out.req.title /\ out'.req.content = out.req.content
     /\ out'.cause # "dbfail") =>
        /\ out'.status = OK
        /\ out'.body[1].title = out.body[1].title
        /\ out'.body[1].content = out.body[1].content
        /\ out'.body[1].updated_at >= out.body[1].updated_at
        /\ now > out.body[1].updated_at =>
              out'.body[1].updated_at > out.body[1].updated_at
C7_UpdateTwice == [][C7_Step]_vars

\* an update has answered, the clock has advanced since, and an update with
\* the same payload for the same record is the next to be served
C7_Witness ==
    /\ out.req.op = "update" /\ out.status = OK
    /\ \E q \in Tasks : /\ Waiting(q, "update", out.req.path)
                        /\ req[q].title = out.req.title
                        /\ req[q].content = out.req.content
                        /\ req[q].title # NULL
    /\ now > out.body[1].updated_at

\* C8: list answers with exactly the stored records, each once, ordered by
\* created_at descending whatever their updated_at; the empty store gives the
\* empty sequence with success; the store is not changed.
C8_Step ==
    (Ran("list") /\ out'.cause # "dbfail") =>
        LET b == out'.body
        IN /\ out'.status = OK
           /\ Len(b) = Cardinality(store)
           /\ {b[i] : i \in 1..Len(b)} = store
           /\ \A i, j \in 1..Len(b) : i < j => b[i].created_at >= b[j].created_at
           /\ store = {} => b = <<>>
           /\ store' = store
C8_ListNewestFirst == [][C8_Step]_vars

\* three records created at three different times were listed newest first,
\* the oldest having been updated after the second was
C8_Witness ==
    /\ out.req.op = "list" /\ out.status = OK /\ Len(out.body) = 3
    /\ out.body[1].created_at > out.body[2].created_at
    /\ out.body[2].created_at > out.body[3].created_at
    /\ out.body[3].updated_at > out.body[2].updated_at

\* C9: a get, update or delete whose path is no identifier is answered with
\* the validation error, not with not-found, without a statement being
\* issued and with the store unchanged.
C9_Step ==
    (/\ Ran("get") \/ Ran("update") \/ Ran("delete")
     /\ ~IsUuidText(out'.req.path)) =>
        /\ out'.status = BAD_REQUEST
        /\ out'.status # NOT_FOUND
        /\ out'.cause = "badid"
        /\ store' = store
C9_MalformedId == [][C9_Step]_vars

\* an update with a malformed path was rejected while records were stored
C9_Witness ==
    /\ out.req.op = "update" /\ out.status = BAD_REQUEST
    /\ ~IsUuidText(out.req.path)
    /\ out.req.title # NULL
    /\ store # {}

\* C10: of two updates of the same stored record in flight together, one
\* carrying only a title and the other only content, both succeed in either
\* order and the record ends with the title of the one and the content of
\* the other; of two deletes of the same stored id in flight together, the
\* first served answers 204 and the other 404 (statements not failing in the
\* store).
TitleOnly(r) == r.title # NULL /\ r.content = NULL
ContentOnly(r) == r.title = NULL /\ r.content # NULL
Complementary(r1, r2) ==
    \/ TitleOnly(r1) /\ ContentOnly(r2)
    \/ ContentOnly(r1) /\ TitleOnly(r2)
C10_Step ==
    /\ (/\ Ran("update") /\ out'.cause # "dbfail"
        /\ out'.req.path \in IdsOf(store)
        /\ \E q \in Tasks : /\ q # out'.task
                            /\ Waiting(q, "update", out'.req.path)
                            /\ Complementary(req[q], out'.req)) =>
          out'.status = OK
    /\ (/\ Ran("update") /\ out'.cause # "dbfail"
        /\ out.req.op = "update" /\ out.status = OK
        /\ out.req.path = out'.req.path
        /\ Complementary(out.req, out'.req)) =>
          /\ out'.status = OK
          /\ LET r == RowOf(store', out'.req.path)
             IN /\ out'.body = <<r>>
                /\ r.title = Coalesce(out.req.title, out'.req.title)
                /\ r.content = Coalesce(out.req.content, out'.req.content)
    /\ (/\ Ran("delete") /\ out'.cause # "dbfail"
        /\ out'.req.path \in IdsOf(store)
        /\ \E q \in Tasks : q # out'.task /\ Waiting(q, "delete", out'.req.path)) =>
          out'.status = NO_CONTENT
    /\ (/\ Ran("delete") /\ out'.cause # "dbfail"
        /\ out.req.op = "delete" /\ out.status = NO_CONTENT
        /\ out.req.path = out'.req.path) =>
          out'.status = NOT_FOUND
C10_NoLostUpdate == [][C10_Step]_vars

\* of two overlapping updates of a record without content, the one carrying
\* only a title has answered and the one carrying only content is still to
\* be served
C10_Witness ==
    /\ out.req.op = "update" /\ out.status = OK /\ TitleOnly(out.req)
    /\ out.body[1].content = NULL
    /\ \E q \in Tasks : /\ Waiting(q, "update", out.req.path)
                        /\ ContentOnly(req[q])
====
